---- MODULE Spec2Model ----
(***************************************************************************)
(* A model of PyGeoStudio/Analysis.py: the TimeIncrements container (its   *)
(* element-tree read/write pair and the schedule operations) and the       *)
(* Analysis entity (geometry / context mutators and showProblem).          *)
(*                                                                         *)
(* A property store (self.data, a Python dict) is a sequence of            *)
(* [tag, val] pairs with unique tags, in insertion order.  Values are      *)
(* tagged: Text(s) for a str, Num(x) for a number, List(l) for the list of *)
(* timestep records, Ref(o) for a reference to another object.  Times are  *)
(* whole-valued floats, written n; str() and float() are real conversions: *)
(* str gives "2.0", and float parses "2" as well as "2.0" to the same 2.   *)
(***************************************************************************)
EXTENDS Integers, Sequences, FiniteSets, TLC

VARIABLES data, call,
          doc, first, node, second, pc,
          adata, context, called, acall

tvars == <<data, call>>
rvars == <<doc, first, node, second, pc>>
avars == <<adata, context, called, acall>>
vars == <<data, call, doc, first, node, second, pc, adata, context, called, acall>>

(* ------------------------------ bounds -------------------------------- *)
MaxSteps == 2
MaxTime == 2
MaxScalars == 2
MaxDocSteps == 2

(* --------------------------- text and numbers -------------------------- *)
Digit == <<"0", "1", "2", "3", "4", "5", "6", "7", "8", "9">>

RECURSIVE NatStr(_)
NatStr(n) == IF n < 10 THEN Digit[n + 1]
             ELSE NatStr(n \div 10) \o Digit[(n % 10) + 1]

IntStr(n) == IF n < 0 THEN "-" \o NatStr(0 - n) ELSE NatStr(n)

\* str(x) of a float64 holding the whole number n
Str(n) == IntStr(n) \o ".0"

NumRange == (0 - (MaxTime + 4)) .. (MaxTime + 4)

\* float(s): defined when s is the decimal text of a number, else ValueError
CanFloat(s) == \E n \in NumRange : s = IntStr(n) \/ s = IntStr(n) \o ".0"
Float(s) == CHOOSE n \in NumRange : s = IntStr(n) \/ s = IntStr(n) \o ".0"

\* truth value of a str: the empty string alone is false
Truthy(s) == s # ""

(* ----------------------------- the dict -------------------------------- *)
Text(s) == [kind |-> "text", text |-> s]
Num(x) == [kind |-> "num", num |-> x]
List(l) == [kind |-> "list", list |-> l]
Ref(o) == [kind |-> "ref", ref |-> o]

EmptyDict == <<>>

Has(d, tag) == \E i \in 1..Len(d) : d[i].tag = tag
Get(d, tag) == d[CHOOSE i \in 1..Len(d) : d[i].tag = tag].val
\* d[tag] = val: an existing key keeps its place, a new key goes last
Put(d, tag, val) ==
  IF Has(d, tag)
  THEN [i \in 1..Len(d) |-> IF d[i].tag = tag THEN [tag |-> tag, val |-> val] ELSE d[i]]
  ELSE Append(d, [tag |-> tag, val |-> val])
Keys(d) == {d[i].tag : i \in 1..Len(d)}

(* --------------------------- document nodes ---------------------------- *)
\* An element is [tag, text] (a scalar child; text is the str the parser
\* gives) or [tag |-> "TimeSteps", Len, children], children being the
\* attribute maps of its TimeStep children.
Rec(step, elapsed) == [Step |-> step, ElapsedTime |-> elapsed]
WithSave(r, s) == r @@ ("Save" :> s)

DocRecords == { Rec("1", "1"),
                WithSave(Rec("1", "2.0"), "true"),
                WithSave(Rec("1", "3"), "false") }

ScalarChildren == { [tag |-> "Start", text |-> Text("0")],
                    [tag |-> "Start", text |-> Text("1.0")],
                    [tag |-> "Duration", text |-> Text("3")],
                    [tag |-> "IncrementCount", text |-> Text("5")] }

SeqsUpTo(S, n) == UNION {[1..k -> S] : k \in 0..n}

\* the Len attribute agrees with the children, or is stale (a hand-edited file)
TimeStepsElements ==
  UNION { { [tag |-> "TimeSteps", Len |-> IntStr(Len(c)), children |-> c],
            [tag |-> "TimeSteps", Len |-> IntStr(Len(c) + 1), children |-> c] }
          : c \in SeqsUpTo(DocRecords, MaxDocSteps) }

InsertAt(s, i, e) == SubSeq(s, 1, i) \o <<e>> \o SubSeq(s, i + 1, Len(s))

\* scalar children plus at most one TimeSteps element, anywhere among them
Docs == SeqsUpTo(ScalarChildren, MaxScalars)
        \cup UNION { { InsertAt(s, i, e) : i \in 0..Len(s), e \in TimeStepsElements }
                     : s \in SeqsUpTo(ScalarChildren, MaxScalars) }

(* ------------------------- TimeIncrements.read ------------------------- *)
\* int(prop.attrib["Len"]) is computed and never used (every document here
\* carries an integer Len); the records appended are the children that
\* follow, whatever Len says.
readProp(d, prop) ==
  IF prop.tag = "TimeSteps"
  THEN LET d1 == IF ~Has(d, "TimeSteps") THEN Put(d, "TimeSteps", List(<<>>)) ELSE d
       IN Put(d1, "TimeSteps", List(Get(d1, "TimeSteps").list \o prop.children))
  ELSE Put(d, prop.tag, prop.text)

RECURSIVE read(_, _)
read(d, et) == IF et = <<>> THEN d ELSE read(readProp(d, Head(et)), Tail(et))

(* ---------------------- TimeIncrements.__write__ ----------------------- *)
\* No key of TimeIncrements.parameter_type is declared None, so the nested
\* __write__ branch is never taken for this class.
writeItemDropSave(item) ==
  IF item.tag = "TimeSteps"
  THEN [tag |-> "TimeSteps", Len |-> IntStr(Len(item.val.list)),
        children |-> [i \in 1..Len(item.val.list) |->
                        [k \in DOMAIN item.val.list[i] \ {"Save"} |-> item.val.list[i][k]]]]
  ELSE [tag |-> item.tag, text |-> item.val]

writeItem(item) ==
  IF item.tag = "TimeSteps"
  THEN [tag |-> "TimeSteps", Len |-> IntStr(Len(item.val.list)),
        children |-> item.val.list]
  ELSE [tag |-> item.tag, text |-> item.val]

write(d) == [i \in 1..Len(d) |-> writeItem(d[i])]

(* -------------------- TimeIncrements schedule queries ------------------ *)
Ok(v) == [outcome |-> "ok", value |-> v]
Raise(e) == [outcome |-> e, value |-> <<>>]

\* [float(x["ElapsedTime"]) for x in l]: the first record that cannot be
\* converted decides the exception
RECURSIVE allTimes(_)
allTimes(l) ==
  IF l = <<>> THEN Ok(<<>>)
  ELSE LET x == Head(l) IN
       IF "ElapsedTime" \notin DOMAIN x THEN Raise("KeyError")
       ELSE IF ~CanFloat(x.ElapsedTime) THEN Raise("ValueError")
       ELSE LET rest == allTimes(Tail(l)) IN
            IF rest.outcome # "ok" THEN rest
            ELSE Ok(<<Float(x.ElapsedTime)>> \o rest.value)

getTimeStep(d) ==
  IF ~Has(d, "TimeSteps") THEN Raise("KeyError") ELSE allTimes(Get(d, "TimeSteps").list)

\* [float(x["ElapsedTime"]) for x in l if x["Save"]]: x["Save"] is looked up
\* first, and any non-empty str counts as true
RECURSIVE savedTimes(_)
savedTimes(l) ==
  IF l = <<>> THEN Ok(<<>>)
  ELSE LET x == Head(l) IN
       IF "Save" \notin DOMAIN x THEN Raise("KeyError")
       ELSE IF Truthy(x.Save) /\ "ElapsedTime" \notin DOMAIN x THEN Raise("KeyError")
       ELSE IF Truthy(x.Save) /\ ~CanFloat(x.ElapsedTime) THEN Raise("ValueError")
       ELSE LET rest == savedTimes(Tail(l)) IN
            IF rest.outcome # "ok" THEN rest
            ELSE Ok((IF Truthy(x.Save) THEN <<Float(x.ElapsedTime)>> ELSE <<>>) \o rest.value)

getSavedTimeStep(d) ==
  IF ~Has(d, "TimeSteps") THEN Raise("KeyError") ELSE savedTimes(Get(d, "TimeSteps").list)

(* ---------------------- TimeIncrements.setTimeSteps -------------------- *)
\* timesteps is a list of floats, saved a list of booleans.  np.argsort's default sort is not stable: any permutation that
\* sorts the values is a possible result.
Perms(n) == {p \in [1..n -> 1..n] : \A i, j \in 1..n : i # j => p[i] # p[j]}
argsort(vals) ==
  {p \in Perms(Len(vals)) : \A i, j \in 1..Len(vals) : i < j => vals[p[i]] <= vals[p[j]]}

Outcome(o, d) == [outcome |-> o, data |-> d]

stepRecord(step, elapsed, save) ==
  IF save THEN WithSave(Rec(Str(step), Str(elapsed)), "true")
  ELSE Rec(Str(step), Str(elapsed))

\* lines 131-150: sort, delta-encode, replace the schedule and the count
rebuild(d, timesteps, saved, indices) ==
  LET n == Len(timesteps)
      timesteps_ == [i \in 1..n |-> timesteps[indices[i]]]
      saved_ == [i \in 1..n |-> saved[indices[i]]]
      start == IF Has(d, "Start") THEN Get(d, "Start") ELSE Num(0)
      res == [i \in 1..n |->
                stepRecord(IF i = 1 THEN timesteps_[1] - start.num
                           ELSE timesteps_[i] - timesteps_[i - 1],
                           timesteps_[i], saved_[i])]
  IN IF n = 0 THEN Outcome("IndexError", d)                   \* timesteps_[0]
     ELSE IF start.kind # "num" THEN Outcome("TypeError", d)  \* number - str
     ELSE Outcome("ok", Put(Put(d, "IncrementCount", Text(IntStr(n))),
                            "TimeSteps", List(res)))

\* the size check made after the count is stored
setTimeStepsLateCheck(d, timesteps, saved, indices) ==
  IF Len(timesteps) # Len(saved)
  THEN Outcome("ValueError", Put(d, "IncrementCount", Text(IntStr(Len(timesteps)))))
  ELSE rebuild(d, timesteps, saved, indices)

setTimeSteps(d, timesteps, saved, indices) ==
  IF Len(timesteps) # Len(saved) THEN Outcome("ValueError", d)
  ELSE rebuild(d, timesteps, saved, indices)

(* ------------------- the TimeIncrements state machine ------------------ *)
\* call: the last call, its arguments, how it ended, and whether it left the
\* store as it was.
NoList == <<>>
Call(op, timesteps, saved, outcome, same) ==
  [op |-> op, timesteps |-> timesteps, saved |-> saved, outcome |-> outcome, same |-> same]

TimeInputs == SeqsUpTo(1..MaxTime, MaxSteps)
SavedInputs == SeqsUpTo(BOOLEAN, MaxSteps)
StartInputs == {0, 1}

\* the documents a TimeIncrements is loaded from in this state machine
LoadDocs ==
  { <<[tag |-> "Start", text |-> Text("0")]>>,
    <<[tag |-> "TimeSteps", Len |-> "2",
       children |-> <<Rec("1", "1"), WithSave(Rec("1", "3"), "false")>>]>>,
    <<[tag |-> "Start", text |-> Text("1.0")],
      [tag |-> "TimeSteps", Len |-> "1",
       children |-> <<WithSave(Rec("1", "2.0"), "true")>>]>>,
    <<[tag |-> "IncrementCount", text |-> Text("5")],
      [tag |-> "TimeSteps", Len |-> "2",
       children |-> <<Rec("1", "1"), WithSave(Rec("1", "2.0"), "true")>>]>> }

\* a TimeIncrements is populated from its element right after construction
Read ==
  /\ call.op = "new"
  /\ \E et \in LoadDocs :
       /\ data' = read(data, et)
       /\ call' = Call("read", NoList, <<>>, "ok", data' = data)
  /\ UNCHANGED <<rvars, avars>>

\* data["Start"] = x, x a number
SetStart ==
  \E x \in StartInputs :
    /\ data' = Put(data, "Start", Num(x))
    /\ call' = Call("setStart", NoList, <<>>, "ok", data' = data)
    /\ UNCHANGED <<rvars, avars>>

SetTimeSteps ==
  \E timesteps \in TimeInputs, saved \in SavedInputs :
    \E indices \in (IF Len(timesteps) = Len(saved) THEN argsort(timesteps) ELSE {<<>>}) :
      LET r == setTimeSteps(data, timesteps, saved, indices) IN
      /\ data' = r.data
      /\ call' = Call("setTimeSteps", timesteps, saved, r.outcome, r.data = data)
      /\ UNCHANGED <<rvars, avars>>

(* ------------------------ the read/write round trip -------------------- *)
\* read a document into a fresh container, __write__ it on a fresh node,
\* read that node into another fresh container
RoundRead ==
  /\ pc = "read"
  /\ first' = read(EmptyDict, doc)
  /\ pc' = "write"
  /\ UNCHANGED <<doc, node, second, tvars, avars>>

RoundWrite ==
  /\ pc = "write"
  /\ node' = write(first)
  /\ pc' = "reread"
  /\ UNCHANGED <<doc, first, second, tvars, avars>>

RoundReread ==
  /\ pc = "reread"
  /\ second' = read(EmptyDict, node)
  /\ pc' = "done"
  /\ UNCHANGED <<doc, first, node, tvars, avars>>

(* ------------------------------ Analysis ------------------------------- *)
\* Collaborators.  A geometry carries its own store, of which only the ID
\* matters here (absent on geomNoID, a geometry built without one); a context
\* may or may not hold GeometryUsesMaterials.
NoObject == [name |-> "none"]
Geometries == { [name |-> "geom1", hasID |-> TRUE, ID |-> Text("1")],
                [name |-> "geom2", hasID |-> TRUE, ID |-> Text("2")],
                [name |-> "geomNoID", hasID |-> FALSE, ID |-> Text("")] }
Contexts == { [name |-> "ctx1", hasMaterials |-> TRUE],
              [name |-> "ctx2", hasMaterials |-> FALSE] }

\* the keys the class declares
parameter_type == {"ID", "Name", "Kind", "Description", "ParentID", "Method",
                   "GeometryId", "Geometry", "Context", "ExcludeInitDeformation",
                   "Results", "TimeIncrements", "ComputedPhysics", "PhysicsOptions"}

\* acall: the last call on the Analysis, its argument, how it ended and the
\* context showProblem went on with; called: the mutators that have returned.
ACall(op, arg, outcome, used) == [op |-> op, arg |-> arg, outcome |-> outcome, used |-> used]

\* the ID is stored under "GeometryID", as the source spells it there
setGeometry(d, geom) ==
  LET d1 == Put(d, "Geometry", Ref(geom)) IN
  IF geom.hasID THEN Outcome("ok", Put(d1, "GeometryID", geom.ID))
  ELSE Outcome("KeyError", d1)                                 \* geom.data["ID"]

\* the Context looked up before the Geometry
showProblemContextFirst(d, ctx) ==
  IF ~Has(d, "Context") THEN [outcome |-> "KeyError", used |-> NoObject]
  ELSE IF ~Has(d, "Geometry") THEN [outcome |-> "NoGeometry", used |-> NoObject]
  ELSE LET c == Get(d, "Context").ref IN
       [outcome |-> IF c.hasMaterials THEN "Shown" ELSE "GeometryOnly", used |-> c]

\* d is self.data, ctx the attribute self.context (which the method never reads)
showProblem(d, ctx) ==
  IF ~Has(d, "Geometry") THEN [outcome |-> "NoGeometry", used |-> NoObject]
  ELSE IF ~Has(d, "Context") THEN [outcome |-> "KeyError", used |-> NoObject]
  ELSE LET c == Get(d, "Context").ref IN
       [outcome |-> IF c.hasMaterials THEN "Shown" ELSE "GeometryOnly", used |-> c]

\* What the project file's parser leaves in an Analysis: the GeometryId of
\* the document and, once the file is linked, the geometry and context.
LoadedStores ==
  { <<[tag |-> "ID", val |-> Text("1")], [tag |-> "GeometryId", val |-> g.ID]>> : g \in {h \in Geometries : h.hasID} }
  \cup
  { <<[tag |-> "ID", val |-> Text("1")], [tag |-> "GeometryId", val |-> g.ID],
      [tag |-> "Geometry", val |-> Ref(g)], [tag |-> "Context", val |-> Ref(c)]>>
    : g \in {h \in Geometries : h.hasID}, c \in Contexts }

Load ==
  /\ acall.op = "new"
  /\ \E d \in LoadedStores : adata' = d
  /\ acall' = ACall("load", NoObject, "ok", NoObject)
  /\ UNCHANGED <<context, called, tvars, rvars>>

SetGeometry ==
  \E geom \in Geometries :
    LET r == setGeometry(adata, geom) IN
    /\ adata' = r.data
    /\ called' = IF r.outcome = "ok" THEN called \cup {"setGeometry"} ELSE called
    /\ acall' = ACall("setGeometry", geom, r.outcome, NoObject)
    /\ UNCHANGED <<context, tvars, rvars>>

SetContext ==
  \E c \in Contexts :
    /\ context' = c
    /\ called' = called \cup {"setContext"}
    /\ acall' = ACall("setContext", c, "ok", NoObject)
    /\ UNCHANGED <<adata, tvars, rvars>>

ShowProblem ==
  LET r == showProblem(adata, context) IN
  /\ acall' = ACall("showProblem", NoObject, r.outcome, r.used)
  /\ UNCHANGED <<adata, context, called, tvars, rvars>>

(* ---------------------------- specifications --------------------------- *)
TimeNext == Read \/ SetStart \/ SetTimeSteps
RoundNext == RoundRead \/ RoundWrite \/ RoundReread
AnalysisNext == Load \/ SetGeometry \/ SetContext \/ ShowProblem

\* every object as constructed: empty stores, no call made, no document
Init ==
  /\ data = EmptyDict
  /\ call = Call("new", NoList, <<>>, "ok", TRUE)
  /\ doc = <<>> /\ first = EmptyDict /\ node = <<>> /\ second = EmptyDict /\ pc = "idle"
  /\ adata = EmptyDict
  /\ context = NoObject
  /\ called = {}
  /\ acall = ACall("new", NoObject, "ok", NoObject)

\* two fresh containers and a document to take through the round trip
InitRoundTrip ==
  /\ data = EmptyDict
  /\ call = Call("new", NoList, <<>>, "ok", TRUE)
  /\ doc \in Docs
  /\ first = EmptyDict /\ node = <<>> /\ second = EmptyDict /\ pc = "read"
  /\ adata = EmptyDict
  /\ context = NoObject
  /\ called = {}
  /\ acall = ACall("new", NoObject, "ok", NoObject)

\* a TimeIncrements under any sequence of calls
Spec == Init /\ [][TimeNext]_vars
\* one round trip of each document
SpecRoundTrip == InitRoundTrip /\ [][RoundNext]_vars
\* an Analysis under any sequence of calls
SpecAnalysis == Init /\ [][AnalysisNext]_vars

(* ------------------------------ properties ----------------------------- *)
\* dict equality: the same keys with the same values, whatever the order
DictEq(a, b) == /\ Keys(a) = Keys(b)
                /\ \A k \in Keys(a) : Get(a, k) = Get(b, k)

Range(s) == {s[i] : i \in 1..Len(s)}
Count(s, v) == Cardinality({i \in 1..Len(s) : s[i] = v})
\* s sorted ascending: the non-decreasing sequence with the same elements
SortedSeq(s) ==
  CHOOSE t \in [1..Len(s) -> Range(s)] :
    /\ \A i \in 1..(Len(s) - 1) : t[i] <= t[i + 1]
    /\ \A v \in Range(s) : Count(t, v) = Count(s, v)
\* the times of s whose flag in f is true, in the order of s
Flagged(s, f) ==
  LET idx == {i \in 1..Len(s) : f[i]}
      RECURSIVE pick(_)
      pick(k) == IF k > Len(s) THEN <<>>
                 ELSE (IF k \in idx THEN <<s[k]>> ELSE <<>>) \o pick(k + 1)
  IN pick(1)

Schedule == Get(data, "TimeSteps").list
EqualLengthCall == call.op = "setTimeSteps" /\ Len(call.timesteps) = Len(call.saved)
MismatchCall == call.op = "setTimeSteps" /\ Len(call.timesteps) # Len(call.saved)

\* C1: a document read into a fresh container, written on a fresh node and
\* read back into another fresh container gives a store with the same keys
\* and the same values, the schedule's records in the same order.
C1_RoundTrip == pc = "done" => DictEq(first, second)

\* a round trip of a schedule of two records, one of them with Save, whose
\* written node is not the document that was read
C1_Witness ==
  /\ pc = "done"
  /\ node # doc
  /\ Has(second, "TimeSteps")
  /\ Len(Get(second, "TimeSteps").list) >= 2
  /\ \E i \in 1..Len(Get(second, "TimeSteps").list) :
       "Save" \in DOMAIN Get(second, "TimeSteps").list[i]
  /\ Has(second, "Start")

\* C2: after setTimeSteps(times, saved) with lists of the same length, on a
\* container in any prior state, getTimeStep() returns the times sorted
\* ascending.
C2_ScheduleOrdering ==
  EqualLengthCall => getTimeStep(data) = Ok(SortedSeq(call.timesteps))

\* C3: getSavedTimeStep() returns the ElapsedTime of exactly the records
\* whose Save is present and equal to "true", in schedule order; after
\* setTimeSteps(times, saved) these are the sorted times whose flag is true.
C3_SavedTimes ==
  /\ (Has(data, "TimeSteps") /\ getTimeStep(data).outcome = "ok")
       => getSavedTimeStep(data) =
            Ok(Flagged(getTimeStep(data).value,
                       [i \in 1..Len(Schedule) |->
                          "Save" \in DOMAIN Schedule[i] /\ Schedule[i]["Save"] = "true"]))
  /\ (EqualLengthCall /\ call.outcome = "ok")
       => getSavedTimeStep(data) = Ok(SortedSeq(Flagged(call.timesteps, call.saved)))

\* C4: after setTimeSteps(times, saved), the first record's Step is its
\* ElapsedTime minus Start (0 if unset; a number, or the text read from a
\* document), and every later record's Step is its ElapsedTime minus the
\* previous record's.
StartValue ==
  IF ~Has(data, "Start") THEN 0
  ELSE IF Get(data, "Start").kind = "num" THEN Get(data, "Start").num
  ELSE Float(Get(data, "Start").text)
DeltaLaw ==
  /\ Has(data, "TimeSteps")
  /\ \A i \in 1..Len(Schedule) :
       Float(Schedule[i].Step) =
         Float(Schedule[i].ElapsedTime)
           - (IF i = 1 THEN StartValue ELSE Float(Schedule[i - 1].ElapsedTime))
C4_StepDelta ==
  (EqualLengthCall /\ Len(call.timesteps) > 0)
    => (call.outcome = "ok" /\ Len(Schedule) = Len(call.timesteps) /\ DeltaLaw)

\* C5: for lists of the same length n >= 0, setTimeSteps completes and
\* IncrementCount equals n and the number of records of the schedule.
C5_CountConsistency ==
  EqualLengthCall =>
    /\ call.outcome = "ok"
    /\ Has(data, "IncrementCount") /\ Has(data, "TimeSteps")
    /\ Float(Get(data, "IncrementCount").text) = Len(call.timesteps)
    /\ Len(Schedule) = Len(call.timesteps)

\* C6: setTimeSteps(times, saved) with lists of different lengths fails with
\* ValueError and leaves the whole store as it was before the call.
C6_SizeMismatch == MismatchCall => (call.outcome = "ValueError" /\ call.same)

\* a rejected call on a container that holds a schedule and a count
C6_Witness ==
  /\ MismatchCall
  /\ call.outcome = "ValueError"
  /\ Has(data, "TimeSteps") /\ Len(Schedule) > 0
  /\ Has(data, "IncrementCount")

\* C7: the schedule left by setTimeSteps is strictly increasing by
\* ElapsedTime, also when the input holds the same time twice.
C7_StrictlyIncreasing ==
  (EqualLengthCall /\ call.outcome = "ok")
    => \A i \in 2..Len(Schedule) :
         Float(Schedule[i].ElapsedTime) > Float(Schedule[i - 1].ElapsedTime)

\* C8: after setGeometry(g) the store's Geometry is g and the property the
\* class declares for it, GeometryId, equals g's ID.
C8_GeometryIdSync ==
  (acall.op = "setGeometry" /\ acall.arg.hasID)
    => /\ Has(adata, "Geometry") /\ Get(adata, "Geometry") = Ref(acall.arg)
       /\ \E k \in parameter_type :
            k = "GeometryId" /\ Has(adata, k) /\ Get(adata, k) = acall.arg.ID

C10_ContextAfterMutators ==
  (acall.op = "showProblem" /\ {"setGeometry", "setContext"} \subseteq called)
    => (acall.outcome # "KeyError" /\ acall.used = context)

====
